---------------------------- MODULE Spec2Model ----------------------------
(* State-machine model of the RRB NTPC mock-exam portal: the App shell        *)
(* (screens, question bank, progressive loader), the TestInterface session    *)
(* (responses, countdown, submission) and the content-provider adapter.       *)
(* One action per handler, timer callback or promise continuation; React      *)
(* effects that run after a handler's state change are part of that action.   *)
EXTENDS Integers, Sequences, FiniteSets, TLC

(***************************************************************************)
(* Bounds of the model                                                     *)
(***************************************************************************)
\* length of a session in timer ticks (the code uses durationMinutes * 60)
DurationTicks == 2
\* how many questions more than asked for a provider answer may hold
MaxExtra == 1
\* the per-session request counter saturates here
MaxRequests == 4
\* largest index the user navigates to with Next
MaxIndex == 1
\* number of tests started in one run of the application
MaxSessions == 2
\* latest hour of the clock and of a stored timestamp at the start
MaxClock == 26
\* number of calls of generateQuestions made on their own
MaxCalls == 3
\* largest batch size passed to generateQuestions on its own
MaxBatch == 6

(***************************************************************************)
(* Program constants                                                       *)
(***************************************************************************)
\* Math.min(batchSize, 5) in generateQuestions, Math.min(remaining, 5) in
\* loadMoreQuestions, generateQuestions(config, 5) and Math.min(cached.length, 5)
BatchCap == 5
\* const threshold = 5 of the background fetch trigger
threshold == 5
\* selectedOption: null
NoOption == -1
\* a field that was never written (undefined)
Undefined == -2
\* 24 * 60 * 60 * 1000 ms of the saved-session check, in hours
SessionMaxAge == 24

Min(a, b) == IF a < b THEN a ELSE b

\* ceil(a / b) for b > 0
CeilDiv(a, b) == (a + b - 1) \div b

SUBJECTS == <<"Mathematics", "General Intelligence & Reasoning", "General Awareness">>

SubjectSet == {SUBJECTS[i] : i \in 1..Len(SUBJECTS)}

\* the three pre-authored questions, ids fb-1, fb-2, fb-3 written 1, 2, 3
FALLBACK_QUESTIONS ==
  << [id |-> 1, correctAnswer |-> 3, subject |-> "Mathematics"],
     [id |-> 2, correctAnswer |-> 2, subject |-> "General Awareness"],
     [id |-> 3, correctAnswer |-> 2, subject |-> "General Intelligence & Reasoning"] >>

\* Generated identifiers (gen-<milliseconds>-<nine random characters>) are
\* taken to differ from each other and from every identifier the program
\* holds; two draws of the same nine characters within one millisecond are
\* left out of the model. The program compares identifiers only with
\* identifiers it still holds, so the model names the questions of a preload
\* answer by the block of numbers kept for its subject, and the questions of a
\* session's answer by the smallest numbers above those blocks that no held
\* question or record carries.
FirstGenId == Len(FALLBACK_QUESTIONS) + 1

SubjectIndex(subject) == CHOOSE i \in 1..Len(SUBJECTS) : SUBJECTS[i] = subject

PreloadFirstId(subject) == FirstGenId + BatchCap * (SubjectIndex(subject) - 1)

SessionFirstId == FirstGenId + BatchCap * Len(SUBJECTS)

RECURSIVE FreshIds(_, _, _)
\* the n smallest identifiers from i on that are not in used, in order
FreshIds(used, n, i) ==
  IF n <= 0 THEN <<>>
  ELSE IF i \in used THEN FreshIds(used, n, i + 1)
  ELSE <<i>> \o FreshIds(used, n - 1, i + 1)

NullConfig ==
  [mode |-> "null", totalQuestions |-> 0, selectedSubjects |-> <<>>, selectedTopic |-> ""]

\* the configurations the dashboard hands to handleConfigSelect in this model:
\* custom tests of 5 and 10 questions on one subject and the full mock
Configs ==
  { [mode |-> "Custom", totalQuestions |-> 5, selectedSubjects |-> <<"Mathematics">>,
     selectedTopic |-> ""],
    [mode |-> "Custom", totalQuestions |-> 10, selectedSubjects |-> <<"Mathematics">>,
     selectedTopic |-> ""],
    [mode |-> "Full", totalQuestions |-> 100, selectedSubjects |-> SUBJECTS,
     selectedTopic |-> ""] }

CustomConfigs == {config \in Configs : config.mode = "Custom"}

(***************************************************************************)
(* Sequences of questions                                                  *)
(***************************************************************************)
Ids(qs) == {qs[i].id : i \in 1..Len(qs)}

\* arr.slice(from) with a 0-based start
SliceFrom(qs, from) == SubSeq(qs, from + 1, Len(qs))

\* arr.slice(0, n)
SliceTo(qs, n) == SubSeq(qs, 1, Min(n, Len(qs)))

\* number of entries of qs with identifier i
CountId(qs, i) == Cardinality({k \in 1..Len(qs) : qs[k].id = i})

(***************************************************************************)
(* Content provider adapter                                                *)
(***************************************************************************)
\* a provider answer is the number of questions in the parsed array, or
\* Failure when the call throws or the text has no JSON array
Failure == -1

\* the answers the provider gives to a preload request in this model: the call
\* fails or the array holds the 5 questions asked for
PreloadAnswers == {Failure, BatchCap}

\* the answers the provider can give to a request for batchSize questions
ProviderAnswers(batchSize) ==
  LET safeBatchSize == Min(batchSize, BatchCap)
  IN  {Failure} \cup (safeBatchSize..(safeBatchSize + MaxExtra))

\* the subject the provider writes into the k-th question of an answer
GeneratedSubject(config, k) ==
  config.selectedSubjects[((k - 1) % Len(config.selectedSubjects)) + 1]

\* generateQuestions with credentials: the mapped array, each element under a
\* new id (used: the identifiers held when the call returns, first: the first
\* number of the caller's range), or the fallback slice on the catch path
generateQuestions(config, batchSize, answer, used, first) ==
  LET safeBatchSize == Min(batchSize, BatchCap)
      ids == FreshIds(used, answer, first)
  IN  IF answer = Failure
      THEN SliceTo(FALLBACK_QUESTIONS, safeBatchSize)
      ELSE [k \in 1..answer |->
              [id |-> ids[k],
               correctAnswer |-> ids[k] % 4,
               subject |-> GeneratedSubject(config, k)]]

\* generateQuestions without credentials
generateQuestionsNoKey == FALLBACK_QUESTIONS

(***************************************************************************)
(* State                                                                   *)
(***************************************************************************)
VARIABLES
  hasKey,                \* process.env.API_KEY is set
  currentScreen,         \* App
  currentConfig,
  questions,
  testResult,
  isLoading,
  questionBank,
  isFetchingRef,
  preloadPending,        \* subjects whose preload request is in flight
  initialFetch,          \* the cache-miss request of handleStartTest
  loader,                \* loadMoreQuestions: in-flight request or 500 ms timer
  currentQuestionIndex,  \* TestInterface
  responses,
  timeLeft,
  isPaused,
  localStorage,          \* the entry rrb_current_session
  session,               \* bookkeeping of the current session (not program state)
  mounted,               \* App: the mount effect has run
  clock,                 \* Date.now() when the mount effect runs, in hours
  savedSession,          \* App: the snapshot found at the start, or NoSaved
  call,                  \* the calls of generateQuestions made on their own
  reply,                 \* an adapter operation run on its own: input and result
  hint                   \* TestInterface: the hint shown and the hint requests

vars == <<hasKey, currentScreen, currentConfig, questions, testResult,
          isLoading, questionBank, isFetchingRef, preloadPending, initialFetch,
          loader, currentQuestionIndex, responses, timeLeft, isPaused,
          localStorage, session, mounted, clock, savedSession, call, reply, hint>>

\* what the mount effect of App leaves behind
mountVars == <<mounted, clock, savedSession>>

appVars == <<currentScreen, currentConfig, questions, testResult, isLoading>>

testVars == <<currentQuestionIndex, responses, timeLeft, isPaused, hint>>

\* the identifiers the program holds
UsedIds ==
  Ids(questions) \cup UNION {Ids(questionBank[s]) : s \in SubjectSet}
    \cup DOMAIN responses \cup DOMAIN localStorage.responses
    \cup DOMAIN testResult.responses


(***************************************************************************)
(* TestInterface: records and effects                                      *)
(***************************************************************************)
EmptyResponses == [i \in {} |-> 0]

\* the record the sync effect creates for a question without one
DefaultResponse(qId) ==
  [questionId |-> qId, selectedOption |-> NoOption, status |-> "Not Visited",
   timeSpentSeconds |-> 0, visited |-> FALSE, isBookmarked |-> FALSE]

\* effect "Sync new questions": one default record per id not yet in the map
SyncEffect(prev, qs) ==
  [i \in (DOMAIN prev) \cup Ids(qs) |->
     IF i \in DOMAIN prev THEN prev[i] ELSE DefaultResponse(i)]

\* updateStatus(qId, newStatus, markVisited); newStatus "" stands for undefined
updateStatus(prev, qId, newStatus, markVisited) ==
  IF qId \notin DOMAIN prev
  THEN prev
  ELSE LET current == prev[qId]
           updatedStatus ==
             IF markVisited /\ current.status = "Not Visited" THEN "Not Answered"
             ELSE IF newStatus # "" THEN newStatus ELSE current.status
       IN  [prev EXCEPT ![qId] =
              [current EXCEPT !.status = updatedStatus,
                              !.visited = IF markVisited THEN TRUE ELSE current.visited]]

\* effect "Initial visited mark", run when questions.length changes: it reads
\* the response map of the render (rendered) and queues an update on the
\* map as left by the sync effect (queued)
InitialVisitedEffect(rendered, queued, qs) ==
  IF /\ Len(qs) > 0
     /\ qs[1].id \in DOMAIN rendered
     /\ rendered[qs[1].id].status = "Not Visited"
  THEN updateStatus(queued, qs[1].id, "", TRUE)
  ELSE queued

\* the effects of a render in which the questions prop went from qsOld to qsNew
QuestionsEffects(prev, qsOld, qsNew) ==
  LET synced == SyncEffect(prev, qsNew)
  IN  IF Len(qsNew) # Len(qsOld)
      THEN InitialVisitedEffect(prev, synced, qsNew)
      ELSE synced

NoSnapshot == [present |-> FALSE, responses |-> EmptyResponses, timeLeft |-> 0]

\* a persistence effect without the pause test
PersistAlways(stored, resp, tl, paused) ==
  [present |-> TRUE, responses |-> resp, timeLeft |-> tl]

\* effect "Persistence": writes the snapshot unless the session is paused
PersistEffect(stored, resp, tl, paused) ==
  IF ~paused THEN [present |-> TRUE, responses |-> resp, timeLeft |-> tl] ELSE stored

\* the timer effect at a render with the given pause flag and remaining time:
\* the early return comes first, so the finishTest branch is never taken
TimerEffect(paused, tl) ==
  IF paused \/ tl <= 0 THEN "return"
  ELSE IF tl <= 0 THEN "finishTest"
  ELSE "setInterval"

(***************************************************************************)
(* Scoring                                                                 *)
(***************************************************************************)
RECURSIVE CorrectCount(_, _)
\* questions.reduce((acc, q) => ...): a question without a record adds
\* nothing, one whose selected option is its correct answer adds 1
CorrectCount(qs, resp) ==
  IF Len(qs) = 0 THEN 0
  ELSE LET q == qs[1]
       IN  (IF q.id \notin DOMAIN resp THEN 0
            ELSE IF resp[q.id].selectedOption = q.correctAnswer THEN 1 ELSE 0)
           + CorrectCount(Tail(qs), resp)

Abs(n) == IF n < 0 THEN -n ELSE n

\* a quotient cut to two decimals, in hundredths
truncate2(num, den) ==
  LET n == (100 * Abs(num)) \div den
  IN  IF num < 0 THEN -n ELSE n

\* parseFloat((num / den).toFixed(2)) in hundredths: toFixed takes the sign
\* off, picks the nearest two-decimal number and the larger one on a tie
toFixed2(num, den) ==
  LET n == (200 * Abs(num) + den) \div (2 * den)
  IN  IF num < 0 THEN -n ELSE n

NullResult ==
  [present |-> FALSE, totalQuestions |-> 0, attempted |-> 0, correct |-> 0,
   wrong |-> 0, score |-> 0, accuracy |-> 0, timeTakenSeconds |-> 0,
   responses |-> EmptyResponses]

\* a finishTest that scores by status and takes Answered alone for an answer
finishTestAnsweredOnly(qs, resp, tl) ==
  LET answered == [i \in {j \in DOMAIN resp : resp[j].status = "Answered"} |-> resp[i]]
      attempted == Cardinality(DOMAIN answered)
      correct == CorrectCount(qs, answered)
      wrong == attempted - correct
  IN  [present |-> TRUE, totalQuestions |-> Len(qs), attempted |-> attempted,
       correct |-> correct, wrong |-> wrong,
       score |-> toFixed2(3 * correct - wrong, 3),
       accuracy |-> IF attempted > 0 THEN toFixed2(100 * correct, attempted) ELSE 0,
       timeTakenSeconds |-> DurationTicks - tl, responses |-> resp]

\* the TestResult finishTest builds from the props and the state of the render
finishTest(qs, resp, tl) ==
  LET attempted == Cardinality({i \in DOMAIN resp : resp[i].selectedOption # NoOption})
      correct == CorrectCount(qs, resp)
      wrong == attempted - correct
  IN  [present |-> TRUE, totalQuestions |-> Len(qs), attempted |-> attempted,
       correct |-> correct, wrong |-> wrong,
       score |-> toFixed2(3 * correct - wrong, 3),
       accuracy |-> IF attempted > 0 THEN toFixed2(100 * correct, attempted) ELSE 0,
       timeTakenSeconds |-> DurationTicks - tl, responses |-> resp]

(***************************************************************************)
(* ResultAnalysis                                                          *)
(***************************************************************************)
\* result.responses[q.id]?.selectedOption
SelectedOption(resp, qId) ==
  IF qId \in DOMAIN resp THEN resp[qId].selectedOption ELSE Undefined

ReviewFilters == {"All", "Incorrect", "Skipped"}

\* the questions of the review list under a filter
filteredQuestions(qs, result, reviewFilter) ==
  SelectSeq(qs, LAMBDA q :
    LET isCorrect   == SelectedOption(result.responses, q.id) = q.correctAnswer
        isAttempted == SelectedOption(result.responses, q.id) # NoOption
    IN  CASE reviewFilter = "Incorrect" -> isAttempted /\ ~isCorrect
          [] reviewFilter = "Skipped"   -> ~isAttempted
          [] OTHER                      -> TRUE)

\* the row of the subject chart for each subject of the question set: the
\* subject's questions, those counted as attempted and those answered correctly
subjectData(qs, result) ==
  [subject \in {qs[k].subject : k \in 1..Len(qs)} |->
     LET subjectQuestions == SelectSeq(qs, LAMBDA q : q.subject = subject)
     IN  [total     |-> Len(subjectQuestions),
          attempted |-> Len(SelectSeq(subjectQuestions, LAMBDA q :
                          SelectedOption(result.responses, q.id) # NoOption)),
          correct   |-> Len(SelectSeq(subjectQuestions, LAMBDA q :
                          SelectedOption(result.responses, q.id) = q.correctAnswer))]]

(***************************************************************************)
(* Progressive loader                                                      *)
(***************************************************************************)
\* The loader's position: idle, at the await of loadMoreQuestions (inflight,
\* with the closure's config and the batch size asked for) or in the 500 ms
\* wait (timer, with the closure's config and updated.length). Bookkeeping:
\* orphan marks a request that was in flight when the user left its session;
\* dropped and appended describe the merge that scheduled the timer.
IdleLoader ==
  [st |-> "idle", config |-> NullConfig, count |-> 0, batchSize |-> 0,
   orphan |-> FALSE, dropped |-> 0, appended |-> 0]

\* a merge that keeps every element of the batch
MergeBatchAll(prev, newQs) == prev \o newQs

\* the setQuestions updater of loadMoreQuestions: ids already present are dropped
MergeBatch(prev, newQs) ==
  prev \o SelectSeq(newQs, LAMBDA q : q.id \notin Ids(prev))

\* the continuation the updater schedules: a 500 ms timer while short of the
\* total, nothing otherwise (the latch stays set)
AfterMerge(config, prev, newQs, updated) ==
  IF Len(updated) < config.totalQuestions
  THEN [st |-> "timer", config |-> config, count |-> Len(updated), batchSize |-> 0,
        orphan |-> FALSE, dropped |-> Len(prev) + Len(newQs) - Len(updated),
        appended |-> Len(updated) - Len(prev)]
  ELSE IdleLoader

\* loadMoreQuestions(config, currentCount) called when the question set is qs,
\* the latch is fetching and the loader is ldr. With credentials the call
\* stops at its await with the request in flight; without, generateQuestions
\* resolves at once and the merge runs before any other event.
loadMoreQuestions(config, currentCount, qs, fetching, ldr) ==
  IF currentCount >= config.totalQuestions \/ fetching
  THEN [questions |-> qs, isFetchingRef |-> fetching, loader |-> ldr,
        issued |-> 0, merged |-> FALSE]
  ELSE LET remaining == config.totalQuestions - currentCount
           batchSize == Min(remaining, BatchCap)
       IN  IF hasKey
           THEN [questions |-> qs, isFetchingRef |-> TRUE,
                 loader |-> [st |-> "inflight", config |-> config,
                             count |-> currentCount, batchSize |-> batchSize,
                             orphan |-> FALSE, dropped |-> 0, appended |-> 0],
                 issued |-> 1, merged |-> FALSE]
           ELSE LET updated == MergeBatch(qs, generateQuestionsNoKey)
                IN  [questions |-> updated, isFetchingRef |-> TRUE,
                     loader |-> AfterMerge(config, qs, generateQuestionsNoKey, updated),
                     issued |-> 1, merged |-> TRUE]

\* handleRequestMoreQuestions, the backup trigger
handleRequestMoreQuestions(qs, fetching, ldr) ==
  IF currentConfig # NullConfig /\ ~fetching /\ Len(qs) < currentConfig.totalQuestions
  THEN loadMoreQuestions(currentConfig, Len(qs), qs, fetching, ldr)
  ELSE [questions |-> qs, isFetchingRef |-> fetching, loader |-> ldr,
        issued |-> 0, merged |-> FALSE]

\* effect "Background Fetch Trigger" of a render with the given index and set
BackgroundFetchTrigger(index, qs, fetching, ldr) ==
  IF index >= Len(qs) - threshold /\ Len(qs) < currentConfig.totalQuestions
  THEN handleRequestMoreQuestions(qs, fetching, ldr)
  ELSE [questions |-> qs, isFetchingRef |-> fetching, loader |-> ldr,
        issued |-> 0, merged |-> FALSE]

\* saturating increment of a counter
CountUp(n, k) == Min(n + k, MaxRequests)

\* the session's bookkeeping after it issued k requests: the requests are
\* counted as long as every answer held exactly what was asked for
Issued(sess, k) ==
  [sess EXCEPT !.requests = IF sess.exact THEN CountUp(@, k) ELSE 0]

\* bookkeeping of a session that starts: its number in the run, requests
\* issued and results produced since the start, whether it started on a cache
\* miss, whether every answer so far held exactly the requested number of
\* fresh questions, whether the user left it with Exit, whether one of its event handlers
\* threw a TypeError
NewSession(number, miss) ==
  [number |-> number, requests |-> 0, completions |-> 0, cacheMiss |-> miss,
   exact |-> hasKey, exited |-> FALSE, threw |-> FALSE]

(***************************************************************************)
(* Initial state: App mounted, mount effect run                            *)
(***************************************************************************)
NoFetch == [active |-> FALSE, config |-> NullConfig]

NoSession ==
  [number |-> 0, requests |-> 0, completions |-> 0, cacheMiss |-> FALSE,
   exact |-> FALSE, exited |-> FALSE, threw |-> FALSE]

\* the configuration preloadQuestions passes for a subject
PreloadConfig(subject) ==
  [mode |-> "Subject", totalQuestions |-> 10, selectedSubjects |-> <<subject>>,
   selectedTopic |-> ""]

\* no call of generateQuestions was made on its own: the number of calls, the
\* batch size of the last one, what it returned and the identifiers the
\* calls before it returned
NoCall == [count |-> 0, batchSize |-> 0, returned |-> <<>>, earlier |-> {}]

\* useState(null) of activeHint: no question's hint
NoQuestion == 0

\* the hint state of a TestInterface that has just mounted: no hint shown, no
\* request in flight, no question carrying a cachedHint
NoHint == [active |-> NoQuestion, loading |-> FALSE, pending |-> {}, cached |-> {}]

\* no adapter operation was run on its own
NoReply == [op |-> "none"]

\* useState(null) of savedSession
NoSaved == [present |-> FALSE]

\* The application starts in a browser that holds no saved session and no
\* cached questions. With credentials the three preload requests are in
\* flight; without, each resolved at once with the fallback questions, which
\* went into the bank.
Init ==
  /\ hasKey \in BOOLEAN
  /\ currentScreen = "dashboard"
  /\ currentConfig = NullConfig
  /\ questions = <<>>
  /\ testResult = NullResult
  /\ isLoading = FALSE
  /\ questionBank = [s \in SubjectSet |-> IF hasKey THEN <<>> ELSE generateQuestionsNoKey]
  /\ isFetchingRef = FALSE
  /\ preloadPending = IF hasKey THEN SubjectSet ELSE {}
  /\ initialFetch = NoFetch
  /\ loader = IdleLoader
  /\ currentQuestionIndex = 0
  /\ responses = EmptyResponses
  /\ timeLeft = 0
  /\ isPaused = FALSE
  /\ localStorage = NoSnapshot
  /\ session = NoSession
  /\ mounted = TRUE
  /\ clock = 0
  /\ savedSession = NoSaved
  /\ call = NoCall
  /\ reply = NoReply
  /\ hint = NoHint

(***************************************************************************)
(* App: the saved-session check of the mount effect. Time is counted in    *)
(* hours.                                                                  *)
(***************************************************************************)
\* an entry rrb_current_session found at the start: text that JSON.parse
\* accepts or not, with a timestamp or without one (Undefined)
StoredItem(parsable, timestamp) ==
  [present |-> TRUE, parsable |-> parsable, timestamp |-> timestamp,
   responses |-> EmptyResponses, timeLeft |-> DurationTicks]

\* what the browser may hold when the application starts
StoredItems ==
  {NoSnapshot, StoredItem(FALSE, Undefined)}
    \cup {StoredItem(TRUE, timestamp) : timestamp \in (0..MaxClock) \cup {Undefined}}

\* the saved-session check: the state of savedSession and of the storage
\* after it. Date.now() - undefined is NaN, and NaN < x is false.
savedSessionCheck(saved, now) ==
  IF ~saved.present
  THEN [savedSession |-> NoSaved, localStorage |-> saved]
  ELSE IF ~saved.parsable
  THEN [savedSession |-> NoSaved, localStorage |-> NoSnapshot]
  ELSE IF saved.timestamp # Undefined /\ now - saved.timestamp < SessionMaxAge
  THEN [savedSession |-> saved, localStorage |-> saved]
  ELSE [savedSession |-> NoSaved, localStorage |-> NoSnapshot]

\* App rendered for the first time, mount effect not yet run
MountInit ==
  /\ hasKey \in BOOLEAN
  /\ currentScreen = "dashboard"
  /\ currentConfig = NullConfig
  /\ questions = <<>>
  /\ testResult = NullResult
  /\ isLoading = FALSE
  /\ questionBank = [s \in SubjectSet |-> <<>>]
  /\ isFetchingRef = FALSE
  /\ preloadPending = {}
  /\ initialFetch = NoFetch
  /\ loader = IdleLoader
  /\ currentQuestionIndex = 0
  /\ responses = EmptyResponses
  /\ timeLeft = 0
  /\ isPaused = FALSE
  /\ localStorage \in StoredItems
  /\ session = NoSession
  /\ mounted = FALSE
  /\ clock \in 0..MaxClock
  /\ savedSession = NoSaved
  /\ call = NoCall
  /\ reply = NoReply
  /\ hint = NoHint

\* the mount effect of App: the saved-session check, then the preload of the
\* three subjects (resolved at once without credentials)
MountEffect ==
  /\ ~mounted
  /\ mounted' = TRUE
  /\ LET check == savedSessionCheck(localStorage, clock)
     IN  /\ savedSession' = check.savedSession
         /\ localStorage' = check.localStorage
  /\ questionBank' = [s \in SubjectSet |-> IF hasKey THEN <<>> ELSE generateQuestionsNoKey]
  /\ preloadPending' = IF hasKey THEN SubjectSet ELSE {}
  /\ UNCHANGED <<hasKey, appVars, isFetchingRef, initialFetch, loader, testVars,
                 session, clock, call, reply>>

(***************************************************************************)
(* The adapter called on its own                                           *)
(***************************************************************************)
\* generateQuestions(config, batchSize) called by any caller while the
\* provider gives the answer given (no provider is asked without credentials)
CallGenerateQuestions(config, batchSize, answer) ==
  /\ call.count < MaxCalls
  /\ answer \in (IF hasKey THEN ProviderAnswers(batchSize) ELSE {Failure})
  /\ LET earlier == call.earlier \cup Ids(call.returned)
         returned == IF hasKey
                     THEN generateQuestions(config, batchSize, answer,
                                            UsedIds \cup earlier, SessionFirstId)
                     ELSE generateQuestionsNoKey
     IN  call' = [count |-> call.count + 1, batchSize |-> batchSize,
                  returned |-> returned, earlier |-> earlier]
  /\ UNCHANGED <<mountVars, reply, hasKey, appVars, questionBank, isFetchingRef,
                 preloadPending, initialFetch, loader, testVars, localStorage, session>>

(***************************************************************************)
(* The adapter's operations and the text the provider answers with         *)
(***************************************************************************)
\* the longest provider text examined, in tokens
MaxText == 4

\* a provider text is a sequence of tokens: the brackets and braces the
\* adapter looks for, "x" for a scalar and "~" for a Markdown fence
Tokens == {"[", "]", "{", "}", "x", "~"}

Texts == UNION {[1..n -> Tokens] : n \in 0..MaxText}

\* jsonStr.replace(/```json/g, "").replace(/```/g, "").trim()
Clean(text) == SelectSeq(text, LAMBDA token : token # "~")

\* String.prototype.indexOf, -1 when the token is absent
IndexOf(text, token) ==
  LET at == {i \in 1..Len(text) : text[i] = token}
  IN  IF at = {} THEN -1 ELSE (CHOOSE i \in at : \A j \in at : i <= j) - 1

\* String.prototype.lastIndexOf, -1 when the token is absent
LastIndexOf(text, token) ==
  LET at == {i \in 1..Len(text) : text[i] = token}
  IN  IF at = {} THEN -1 ELSE (CHOOSE i \in at : \A j \in at : i >= j) - 1

\* String.prototype.substring: the ends are swapped when start > end
Substring(text, start, end) ==
  LET lo == IF start <= end THEN start ELSE end
      hi == IF start <= end THEN end ELSE start
  IN  SubSeq(text, lo + 1, Min(hi, Len(text)))

\* JSON.parse accepts the text: a scalar, an empty object, an empty array or
\* an array of one value (it throws a SyntaxError otherwise)
RECURSIVE JsonAccepts(_)
JsonAccepts(text) ==
  \/ text = <<"x">>
  \/ text = <<"{", "}">>
  \/ text = <<"[", "]">>
  \/ /\ Len(text) >= 3
     /\ text[1] = "["
     /\ text[Len(text)] = "]"
     /\ JsonAccepts(SubSeq(text, 2, Len(text) - 1))

\* what an operation gives its caller: a value, or the error it let through
Returns(value) == [threw |-> FALSE, value |-> value]

Rejects == [threw |-> TRUE, value |-> [kind |-> "error"]]

\* an operation whose catch block is missing: the provider's failure and
\* the parse error reach the caller
generateFlashcardsUncaught(key, weakTopics, fails, text) ==
  IF ~key \/ weakTopics = 0 THEN Returns([kind |-> "json", text |-> <<"[", "]">>])
  ELSE IF fails THEN Rejects
  ELSE LET jsonStr   == Clean(text)
           firstOpen == IndexOf(jsonStr, "[")
           lastClose == LastIndexOf(jsonStr, "]")
           extracted == IF firstOpen # -1 /\ lastClose # -1
                        THEN Substring(jsonStr, firstOpen, lastClose + 1)
                        ELSE jsonStr
       IN  IF JsonAccepts(extracted)
           THEN Returns([kind |-> "json", text |-> extracted])
           ELSE Rejects

\* generateQuestions over the provider's text: the questions parsed out of
\* it, or the pre-authored ones
generateQuestionsFrom(key, batchSize, fails, text) ==
  IF ~key THEN Returns([kind |-> "fallback", questions |-> FALLBACK_QUESTIONS])
  ELSE LET safeBatchSize == Min(batchSize, BatchCap)
           caught    == Returns([kind |-> "fallback",
                                 questions |-> SliceTo(FALLBACK_QUESTIONS, safeBatchSize)])
           jsonStr   == Clean(text)
           firstOpen == IndexOf(jsonStr, "[")
           lastClose == LastIndexOf(jsonStr, "]")
           extracted == Substring(jsonStr, firstOpen, lastClose + 1)
       IN  IF fails THEN caught
           ELSE IF ~(firstOpen # -1 /\ lastClose # -1 /\ lastClose > firstOpen)
           THEN caught
           ELSE IF ~JsonAccepts(extracted) THEN caught
           ELSE Returns([kind |-> "generated", text |-> extracted])

\* generateFlashcards(weakTopics): the parsed value, or the empty sequence
generateFlashcards(key, weakTopics, fails, text) ==
  LET empty == Returns([kind |-> "json", text |-> <<"[", "]">>])
  IN  IF ~key \/ weakTopics = 0 THEN empty
      ELSE IF fails THEN empty
      ELSE LET jsonStr   == Clean(text)
               firstOpen == IndexOf(jsonStr, "[")
               lastClose == LastIndexOf(jsonStr, "]")
               extracted == IF firstOpen # -1 /\ lastClose # -1
                            THEN Substring(jsonStr, firstOpen, lastClose + 1)
                            ELSE jsonStr
           IN  IF JsonAccepts(extracted)
               THEN Returns([kind |-> "json", text |-> extracted])
               ELSE empty

\* getAIHint(question): the provider's text, or one of three fixed strings
getAIHint(key, fails, text) ==
  IF ~key THEN Returns([kind |-> "fixed", string |-> "Hints unavailable without API Key."])
  ELSE IF fails
  THEN Returns([kind |-> "fixed", string |-> "Check specific keywords in the question."])
  ELSE IF text = <<>>
  THEN Returns([kind |-> "fixed", string |-> "Analyze the options carefully."])
  ELSE Returns([kind |-> "text", text |-> text])

\* solveAIDoubt(question, userDoubt): the provider's text, or a fixed string
solveAIDoubt(key, fails, text) ==
  IF ~key THEN Returns([kind |-> "fixed", string |-> "Feature unavailable."])
  ELSE IF fails
  THEN Returns([kind |-> "fixed", string |-> "Connection error. Please try again."])
  ELSE IF text = <<>>
  THEN Returns([kind |-> "fixed",
                string |-> "I couldn't generate an explanation at this moment."])
  ELSE Returns([kind |-> "text", text |-> text])

\* analyzePerformance(stats): the parsed record, or the canned analysis
analyzePerformance(key, fails, text) ==
  LET fallback == Returns([kind |-> "fallback"])
  IN  IF ~key THEN fallback
      ELSE IF fails THEN fallback
      ELSE LET jsonStr   == Clean(text)
               firstOpen == IndexOf(jsonStr, "{")
               lastClose == LastIndexOf(jsonStr, "}")
               extracted == Substring(jsonStr, firstOpen, lastClose + 1)
           IN  IF firstOpen # -1 /\ lastClose # -1
               THEN IF JsonAccepts(extracted)
                    THEN Returns([kind |-> "json", text |-> extracted])
                    ELSE fallback
               ELSE fallback

Operations ==
  {"generateQuestions", "generateFlashcards", "getAIHint", "solveAIDoubt",
   "analyzePerformance"}

\* one operation of the adapter runs to completion on the answer the
\* provider gives, a failure or a text (the operations keep no state: one
\* call is examined in a behaviour)
CallOperation(op, batchSize, weakTopics, fails, text) ==
  /\ reply' = [op |-> op, key |-> hasKey, batchSize |-> batchSize,
               weakTopics |-> weakTopics, fails |-> fails, text |-> text,
               result |->
                 CASE op = "generateQuestions" ->
                        generateQuestionsFrom(hasKey, batchSize, fails, text)
                   [] op = "generateFlashcards" ->
                        generateFlashcards(hasKey, weakTopics, fails, text)
                   [] op = "getAIHint" -> getAIHint(hasKey, fails, text)
                   [] op = "solveAIDoubt" -> solveAIDoubt(hasKey, fails, text)
                   [] op = "analyzePerformance" ->
                        analyzePerformance(hasKey, fails, text)]
  /\ UNCHANGED <<mountVars, call, hasKey, appVars, questionBank, isFetchingRef,
                 preloadPending, initialFetch, loader, testVars, localStorage, session>>

\* the hint state once its TestInterface is gone: the requests in flight
\* stay in flight, their continuations belong to the unmounted instance
UnmountHint(h) ==
  [active |-> NoQuestion, loading |-> FALSE,
   pending |-> {[qId |-> p.qId, live |-> FALSE] : p \in h.pending},
   cached |-> h.cached]

\* TestInterface is not rendered: its state does not exist
Unmounted ==
  /\ currentQuestionIndex' = 0
  /\ responses' = EmptyResponses
  /\ timeLeft' = 0
  /\ isPaused' = FALSE
  /\ hint' = UnmountHint(hint)

(***************************************************************************)
(* App: preload, configuration, start of a test                            *)
(***************************************************************************)
\* the .then callback of a preload request (App mount effect)
PreloadComplete(subject, answer) ==
  /\ subject \in preloadPending
  /\ answer \in PreloadAnswers
  /\ LET qs == generateQuestions(PreloadConfig(subject), BatchCap, answer, {},
                                 PreloadFirstId(subject))
     IN  questionBank' = [questionBank EXCEPT ![subject] = @ \o qs]
  /\ preloadPending' = preloadPending \ {subject}
  /\ UNCHANGED <<mountVars, call, reply, hasKey, appVars, isFetchingRef, initialFetch, loader, testVars,
                 localStorage, session>>

handleConfigSelect(config) ==
  /\ currentScreen = "dashboard"
  /\ ~isLoading
  /\ currentConfig' = config
  /\ currentScreen' = "instructions"
  /\ UNCHANGED <<mountVars, call, reply, hasKey, questions, testResult, isLoading, questionBank,
                 isFetchingRef, preloadPending, initialFetch, loader, testVars,
                 localStorage, session>>

\* Instructions onCancel
onCancel ==
  /\ currentScreen = "instructions"
  /\ ~isLoading
  /\ currentScreen' = "dashboard"
  /\ UNCHANGED <<mountVars, call, reply, hasKey, currentConfig, questions, testResult, isLoading,
                 questionBank, isFetchingRef, preloadPending, initialFetch, loader,
                 testVars, localStorage, session>>

RECURSIVE BankAssembly(_, _)
\* step 1 of handleStartTest: up to 5 cached questions of each selected subject
BankAssembly(subjects, bank) ==
  IF Len(subjects) = 0 THEN <<>>
  ELSE LET cached == bank[subjects[1]]
           takeCount == Min(Len(cached), BatchCap)
       IN  SliceTo(cached, takeCount) \o BankAssembly(Tail(subjects), bank)

\* the setQuestionBank updater of the cache-hit path
BankAfterUse(subjects, bank) ==
  [s \in DOMAIN bank |->
     IF \E i \in 1..Len(subjects) : subjects[i] = s
     THEN SliceFrom(bank[s], Min(Len(bank[s]), BatchCap))
     ELSE bank[s]]

\* the common tail of both paths of handleStartTest: the initial set is
\* installed, the test screen is shown (TestInterface mounts and runs its
\* effects) and the loader is started when the set is short of the total
EnterTest(config, initialQs, sess) ==
  LET lm == IF Len(initialQs) < config.totalQuestions
            THEN loadMoreQuestions(config, Len(initialQs), initialQs, isFetchingRef, loader)
            ELSE [questions |-> initialQs, isFetchingRef |-> isFetchingRef,
                  loader |-> loader, issued |-> 0, merged |-> FALSE]
      tr == BackgroundFetchTrigger(0, lm.questions, lm.isFetchingRef, lm.loader)
      atMount == SyncEffect(EmptyResponses, initialQs)
      resp == QuestionsEffects(atMount, initialQs, tr.questions)
  IN  /\ questions' = tr.questions
      /\ currentScreen' = "test"
      /\ isLoading' = FALSE
      /\ isFetchingRef' = tr.isFetchingRef
      /\ loader' = tr.loader
      /\ currentQuestionIndex' = 0
      /\ hint' = UnmountHint(hint)
      /\ responses' = resp
      /\ timeLeft' = DurationTicks
      /\ isPaused' = FALSE
      /\ localStorage' = PersistEffect(localStorage, resp, DurationTicks, FALSE)
      /\ session' = Issued(sess, lm.issued + tr.issued)

handleStartTest ==
  /\ currentScreen = "instructions"
  /\ ~isLoading
  /\ currentConfig # NullConfig
  /\ LET initialQs == IF currentConfig.selectedTopic = ""
                      THEN BankAssembly(currentConfig.selectedSubjects, questionBank)
                      ELSE <<>>
     IN  IF Len(initialQs) > 0
         THEN \* cache hit
              /\ questionBank' = BankAfterUse(currentConfig.selectedSubjects, questionBank)
              /\ EnterTest(currentConfig, initialQs, NewSession(session.number + 1, FALSE))
              /\ UNCHANGED initialFetch
         ELSE IF hasKey
         THEN \* cache miss: the first batch is awaited behind the loading screen
              /\ isLoading' = TRUE
              /\ initialFetch' = [active |-> TRUE, config |-> currentConfig]
              /\ session' = Issued(NewSession(session.number + 1, TRUE), 1)
              /\ UNCHANGED <<currentScreen, questions, questionBank,
                             isFetchingRef, loader, testVars, localStorage>>
         ELSE \* cache miss without credentials: the fallback set comes at once
              /\ EnterTest(currentConfig, generateQuestionsNoKey,
                           Issued(NewSession(session.number + 1, TRUE), 1))
              /\ UNCHANGED <<questionBank, initialFetch>>
  /\ UNCHANGED <<mountVars, call, reply, hasKey, currentConfig, testResult, preloadPending>>

\* the continuation of handleStartTest after await generateQuestions(config, 5)
InitialFetchComplete(answer) ==
  /\ initialFetch.active
  /\ answer \in ProviderAnswers(BatchCap)
  /\ LET fetchedQs == generateQuestions(initialFetch.config, BatchCap, answer, UsedIds,
                                        SessionFirstId)
     IN  EnterTest(initialFetch.config, fetchedQs,
                   [session EXCEPT !.exact = @ /\ answer = BatchCap])
  /\ initialFetch' = NoFetch
  /\ UNCHANGED <<mountVars, call, reply, hasKey, currentConfig, testResult, questionBank, preloadPending>>

(***************************************************************************)
(* App: progressive loader                                                 *)
(***************************************************************************)
NoLoad(qs, fetching, ldr) ==
  [questions |-> qs, isFetchingRef |-> fetching, loader |-> ldr,
   issued |-> 0, merged |-> FALSE]

\* the continuation of loadMoreQuestions after await generateQuestions: the
\* merge, the scheduling of the next batch and, when TestInterface is
\* mounted, the effects of the render with the new questions prop
LoaderComplete(answer) ==
  /\ loader.st = "inflight"
  /\ answer \in ProviderAnswers(loader.batchSize)
  /\ LET newQs == generateQuestions(loader.config, loader.batchSize, answer, UsedIds,
                                    SessionFirstId)
         updated == MergeBatch(questions, newQs)
         after == AfterMerge(loader.config, questions, newQs, updated)
         tr == IF currentScreen = "test"
               THEN BackgroundFetchTrigger(currentQuestionIndex, updated, isFetchingRef, after)
               ELSE NoLoad(updated, isFetchingRef, after)
         resp == IF currentScreen = "test"
                 THEN QuestionsEffects(responses, questions, updated)
                 ELSE responses
     IN  /\ questions' = tr.questions
         /\ loader' = tr.loader
         /\ isFetchingRef' = tr.isFetchingRef
         /\ responses' = resp
         /\ localStorage' = IF currentScreen = "test"
                            THEN PersistEffect(localStorage, resp, timeLeft, isPaused)
                            ELSE localStorage
         /\ session' = Issued([session EXCEPT !.exact = @ /\ answer = loader.batchSize],
                               tr.issued)
  /\ UNCHANGED <<mountVars, call, reply, hasKey, currentScreen, currentConfig, testResult, isLoading,
                 questionBank, preloadPending, initialFetch, currentQuestionIndex, hint,
                 timeLeft, isPaused>>

\* the setTimeout callback of loadMoreQuestions, 500 ms after a merge
LoaderTimer ==
  /\ loader.st = "timer"
  /\ LET lm == loadMoreQuestions(loader.config, loader.count, questions, FALSE, IdleLoader)
         resp == IF currentScreen = "test"
                 THEN QuestionsEffects(responses, questions, lm.questions)
                 ELSE responses
     IN  /\ questions' = lm.questions
         /\ loader' = lm.loader
         /\ isFetchingRef' = lm.isFetchingRef
         /\ responses' = resp
         /\ localStorage' = IF currentScreen = "test"
                            THEN PersistEffect(localStorage, resp, timeLeft, isPaused)
                            ELSE localStorage
         /\ session' = Issued(session, lm.issued)
  /\ UNCHANGED <<mountVars, call, reply, hasKey, currentScreen, currentConfig, testResult, isLoading,
                 questionBank, preloadPending, initialFetch, currentQuestionIndex, hint,
                 timeLeft, isPaused>>

(***************************************************************************)
(* End of a session                                                        *)
(***************************************************************************)
\* a completion handler that stores the result and stays on the test screen
handleTestCompleteStay(result) ==
  /\ testResult' = result
  /\ currentScreen' = currentScreen
  /\ localStorage' = NoSnapshot

\* handleTestComplete(result), the onComplete prop of TestInterface
handleTestComplete(result) ==
  /\ testResult' = result
  /\ currentScreen' = "result"
  /\ localStorage' = NoSnapshot

\* TestInterface stays mounted only while the test screen is shown
MountedIffTest ==
  IF currentScreen' = "test" THEN UNCHANGED testVars ELSE Unmounted

\* Confirm Submit in the submit dialog: finishTest()
ConfirmSubmit ==
  /\ currentScreen = "test"
  /\ ~isPaused
  /\ handleTestComplete(finishTest(questions, responses, timeLeft))
  /\ MountedIffTest
  /\ session' = [session EXCEPT !.completions = @ + 1]
  /\ UNCHANGED <<mountVars, call, reply, hasKey, currentConfig, questions, isLoading, questionBank,
                 isFetchingRef, preloadPending, initialFetch, loader>>

\* a handleExitTest that leaves the stored snapshot
handleExitTestKeep ==
  /\ currentScreen = "test"
  /\ currentScreen' = "dashboard"
  /\ questions' = <<>>
  /\ localStorage' = localStorage
  /\ Unmounted
  /\ session' = [session EXCEPT !.exited = TRUE]
  /\ loader' = [loader EXCEPT !.orphan = @ \/ loader.st = "inflight"]
  /\ UNCHANGED <<mountVars, call, reply, hasKey, currentConfig, testResult, isLoading, questionBank,
                 isFetchingRef, preloadPending, initialFetch>>

\* handleExitTest with the confirmation accepted (Exit button, or the header
\* while the test screen is shown)
handleExitTest ==
  /\ currentScreen = "test"
  /\ currentScreen' = "dashboard"
  /\ questions' = <<>>
  /\ localStorage' = NoSnapshot
  /\ Unmounted
  /\ session' = [session EXCEPT !.exited = TRUE]
  /\ loader' = [loader EXCEPT !.orphan = @ \/ loader.st = "inflight"]
  /\ UNCHANGED <<mountVars, call, reply, hasKey, currentConfig, testResult, isLoading, questionBank,
                 isFetchingRef, preloadPending, initialFetch>>

\* The result screen is the only reader of testResult and every entry to it
\* sets testResult, so the value is dead once the screen is left: the model
\* stores the null result then.
LeaveScreen == testResult' = NullResult

\* the header's onHome on a screen other than the test
onHome ==
  /\ currentScreen \in {"instructions", "result"}
  /\ currentScreen' = "dashboard"
  /\ LeaveScreen
  /\ UNCHANGED <<mountVars, call, reply, hasKey, currentConfig, questions, isLoading,
                 questionBank, isFetchingRef, preloadPending, initialFetch, loader,
                 testVars, localStorage, session>>

\* ResultAnalysis onBackToDashboard
onBackToDashboard ==
  /\ currentScreen = "result"
  /\ ~isLoading
  /\ currentScreen' = "dashboard"
  /\ LeaveScreen
  /\ UNCHANGED <<mountVars, call, reply, hasKey, currentConfig, questions, isLoading,
                 questionBank, isFetchingRef, preloadPending, initialFetch, loader,
                 testVars, localStorage, session>>

(***************************************************************************)
(* TestInterface: timer and user operations                                *)
(***************************************************************************)
\* questions[currentQuestionIndex] exists
Loaded(index, qs) == index >= 0 /\ index < Len(qs)

\* the record {...prev[qId], field: value} when prev[qId] is undefined
PartialResponse ==
  [questionId |-> Undefined, selectedOption |-> Undefined, status |-> "undefined",
   timeSpentSeconds |-> 0, visited |-> FALSE, isBookmarked |-> FALSE]

\* prev[qId] as the spread {...prev[qId]} sees it
Spread(prev, qId) == IF qId \in DOMAIN prev THEN prev[qId] ELSE PartialResponse

\* {...prev, [qId]: rec}
Put(prev, qId, rec) ==
  [i \in (DOMAIN prev) \cup {qId} |-> IF i = qId THEN rec ELSE prev[i]]

\* the setInterval callback: one second passes; afterwards the timer effect
\* of the new render decides between the next interval, return and finishTest
Tick ==
  /\ currentScreen = "test"
  /\ TimerEffect(isPaused, timeLeft) = "setInterval"
  /\ LET tl == timeLeft - 1
         resp == IF Loaded(currentQuestionIndex, questions)
                 THEN LET qId == questions[currentQuestionIndex + 1].id
                      IN  Put(responses, qId,
                              [Spread(responses, qId) EXCEPT !.timeSpentSeconds = @ + 1])
                 ELSE responses
     IN  IF TimerEffect(isPaused, tl) = "finishTest"
         THEN /\ handleTestComplete(finishTest(questions, resp, tl))
              /\ MountedIffTest
              /\ session' = [session EXCEPT !.completions = @ + 1]
         ELSE /\ timeLeft' = tl
              /\ responses' = resp
              /\ localStorage' = PersistEffect(localStorage, resp, tl, isPaused)
              /\ UNCHANGED <<currentScreen, testResult, currentQuestionIndex, hint, isPaused,
                             session>>
  /\ UNCHANGED <<mountVars, call, reply, hasKey, currentConfig, questions, isLoading, questionBank,
                 isFetchingRef, preloadPending, initialFetch, loader>>

\* the options the user picks from in this model: the right one and a wrong one
OptionChoices(q) == {q.correctAnswer, (q.correctAnswer + 1) % 4}

handleOptionSelect(optionIndex) ==
  /\ currentScreen = "test"
  /\ ~isPaused
  /\ Loaded(currentQuestionIndex, questions)
  /\ optionIndex \in OptionChoices(questions[currentQuestionIndex + 1])
  /\ LET qId == questions[currentQuestionIndex + 1].id
         resp == Put(responses, qId,
                     [Spread(responses, qId) EXCEPT !.selectedOption = optionIndex,
                                                   !.status = "Answered"])
     IN  /\ responses' = resp
         /\ localStorage' = PersistEffect(localStorage, resp, timeLeft, isPaused)
  /\ UNCHANGED <<mountVars, call, reply, hasKey, appVars, questionBank, isFetchingRef, preloadPending,
                 initialFetch, loader, currentQuestionIndex, hint, timeLeft, isPaused,
                 session>>

\* a handleNavigate without the range test
navigateUnchecked(index, resp) ==
  [index |-> index,
   responses |-> IF Loaded(index, questions)
                 THEN updateStatus(resp, questions[index + 1].id, "", TRUE)
                 ELSE resp]

\* the state updates queued by handleNavigate(index) on top of the response
\* map resp: the new index and the new map
navigate(index, resp) ==
  IF index >= 0 /\ index < currentConfig.totalQuestions
  THEN [index |-> index,
        responses |-> IF Loaded(index, questions)
                      THEN updateStatus(resp, questions[index + 1].id, "", TRUE)
                      ELSE resp]
  ELSE [index |-> currentQuestionIndex, responses |-> resp]

\* the render after an event handler of the question panel left the index and
\* the response map given: the trigger effect runs and the hint is taken
\* down when the index changed, the persistence effect writes the snapshot
PanelRender(index, resp) ==
  LET tr == IF index # currentQuestionIndex
            THEN BackgroundFetchTrigger(index, questions, isFetchingRef, loader)
            ELSE NoLoad(questions, isFetchingRef, loader)
      resp2 == QuestionsEffects(resp, questions, tr.questions)
  IN  /\ currentQuestionIndex' = index
      /\ hint' = IF index # currentQuestionIndex
                 THEN [hint EXCEPT !.active = NoQuestion]
                 ELSE hint
      /\ responses' = resp2
      /\ questions' = tr.questions
      /\ isFetchingRef' = tr.isFetchingRef
      /\ loader' = tr.loader
      /\ localStorage' = PersistEffect(localStorage, resp2, timeLeft, isPaused)
      /\ session' = Issued(session, tr.issued)
      /\ UNCHANGED <<mountVars, call, reply, hasKey, currentScreen, currentConfig, testResult, isLoading,
                     questionBank, preloadPending, initialFetch, timeLeft, isPaused>>

\* an event handler throws a TypeError before it queued a state update: React
\* reports the error and every state stays as it is
Throws ==
  /\ session' = [session EXCEPT !.threw = TRUE]
  /\ UNCHANGED <<mountVars, call, reply, hasKey, appVars, questionBank, isFetchingRef, preloadPending,
                 initialFetch, loader, testVars, localStorage>>

\* handleNavigate(index)
handleNavigate(index) ==
  /\ currentScreen = "test"
  /\ ~isPaused
  /\ LET nav == navigate(index, responses)
     IN  PanelRender(nav.index, nav.responses)

\* the Prev button, disabled on the first question
Prev == currentQuestionIndex # 0 /\ handleNavigate(currentQuestionIndex - 1)

\* the Next button, labelled Finish on the last question
NextButton == handleNavigate(currentQuestionIndex + 1)

\* a button of the question palette: one per loaded question among the first
\* totalQuestionsConfig entries
PaletteButton(idx) ==
  /\ idx >= 0
  /\ idx < currentConfig.totalQuestions
  /\ Loaded(idx, questions)
  /\ handleNavigate(idx)

\* the Hint button of a loaded question: the cached hint is shown at once;
\* otherwise getAIHint is awaited, which resolves at once without credentials
handleGetHint ==
  /\ currentScreen = "test"
  /\ ~isPaused
  /\ Loaded(currentQuestionIndex, questions)
  /\ LET qId == questions[currentQuestionIndex + 1].id
     IN  hint' = IF qId \in hint.cached
                 THEN [hint EXCEPT !.active = qId]
                 ELSE IF hasKey
                 THEN [hint EXCEPT !.loading = TRUE,
                                   !.pending = @ \cup {[qId |-> qId, live |-> TRUE]}]
                 ELSE [hint EXCEPT !.active = qId, !.loading = FALSE,
                                   !.cached = @ \cup {qId}]
  /\ UNCHANGED <<mountVars, call, reply, hasKey, appVars, questionBank, isFetchingRef,
                 preloadPending, initialFetch, loader, currentQuestionIndex, responses,
                 timeLeft, isPaused, localStorage, session>>

\* the continuation of handleGetHint after the await: the hint is stored on
\* its question and shown, whatever the current index is by now (the state
\* updates of an unmounted TestInterface are dropped)
HintArrives(request) ==
  /\ request \in hint.pending
  /\ hint' = [active  |-> IF request.live THEN request.qId ELSE hint.active,
              loading |-> IF request.live THEN FALSE ELSE hint.loading,
              pending |-> hint.pending \ {request},
              cached  |-> hint.cached \cup {request.qId}]
  /\ UNCHANGED <<mountVars, call, reply, hasKey, appVars, questionBank, isFetchingRef,
                 preloadPending, initialFetch, loader, currentQuestionIndex, responses,
                 timeLeft, isPaused, localStorage, session>>

\* the X button of the hint panel: setActiveHint(null)
CloseHint ==
  /\ currentScreen = "test"
  /\ ~isPaused
  /\ Loaded(currentQuestionIndex, questions)
  /\ hint.active # NoQuestion
  /\ hint' = [hint EXCEPT !.active = NoQuestion]
  /\ UNCHANGED <<mountVars, call, reply, hasKey, appVars, questionBank, isFetchingRef,
                 preloadPending, initialFetch, loader, currentQuestionIndex, responses,
                 timeLeft, isPaused, localStorage, session>>

\* a Review button that marks the question without looking at its option
handleMarkForReviewAlways ==
  /\ currentScreen = "test"
  /\ ~isPaused
  /\ IF ~Loaded(currentQuestionIndex, questions)
     THEN Throws
     ELSE LET qId == questions[currentQuestionIndex + 1].id
          IN  IF qId \notin DOMAIN responses
              THEN Throws
              ELSE PanelRender(currentQuestionIndex,
                               updateStatus(responses, qId, "Marked For Review", FALSE))

\* the Review button of the footer
handleMarkForReview ==
  /\ currentScreen = "test"
  /\ ~isPaused
  /\ IF ~Loaded(currentQuestionIndex, questions)
     THEN Throws
     ELSE LET qId == questions[currentQuestionIndex + 1].id
          IN  IF qId \notin DOMAIN responses
              THEN Throws
              ELSE LET newStatus == IF responses[qId].selectedOption # NoOption
                                    THEN "Answered & Marked"
                                    ELSE "Marked For Review"
                   IN  PanelRender(currentQuestionIndex,
                                   updateStatus(responses, qId, newStatus, FALSE))

\* the Skip button of the footer
handleSkip ==
  /\ currentScreen = "test"
  /\ ~isPaused
  /\ IF ~Loaded(currentQuestionIndex, questions)
     THEN Throws
     ELSE LET qId == questions[currentQuestionIndex + 1].id
              resp == Put(responses, qId,
                          [Spread(responses, qId) EXCEPT !.selectedOption = NoOption,
                                                        !.status = "Not Answered",
                                                        !.visited = TRUE])
              nav == IF currentQuestionIndex < Len(questions) - 1
                     THEN navigate(currentQuestionIndex + 1, resp)
                     ELSE [index |-> currentQuestionIndex, responses |-> resp]
          IN  PanelRender(nav.index, nav.responses)

\* the bookmark button, rendered with the current question
handleBookmark ==
  /\ currentScreen = "test"
  /\ ~isPaused
  /\ Loaded(currentQuestionIndex, questions)
  /\ LET qId == questions[currentQuestionIndex + 1].id
         rec == Spread(responses, qId)
     IN  PanelRender(currentQuestionIndex,
                     Put(responses, qId, [rec EXCEPT !.isBookmarked = ~rec.isBookmarked]))

\* the Clear button of the footer
handleClearResponse ==
  /\ currentScreen = "test"
  /\ ~isPaused
  /\ IF ~Loaded(currentQuestionIndex, questions)
     THEN Throws
     ELSE LET qId == questions[currentQuestionIndex + 1].id
          IN  PanelRender(currentQuestionIndex,
                          Put(responses, qId,
                              [Spread(responses, qId) EXCEPT !.selectedOption = NoOption,
                                                            !.status = "Not Answered"]))

\* the Pause button: setIsPaused(true)
Pause ==
  /\ currentScreen = "test"
  /\ ~isPaused
  /\ isPaused' = TRUE
  /\ UNCHANGED <<mountVars, call, reply, hasKey, appVars, questionBank, isFetchingRef, preloadPending,
                 initialFetch, loader, currentQuestionIndex, hint, responses, timeLeft,
                 localStorage, session>>

\* Resume Test on the pause overlay: setIsPaused(false)
Resume ==
  /\ currentScreen = "test"
  /\ isPaused
  /\ isPaused' = FALSE
  /\ localStorage' = PersistEffect(localStorage, responses, timeLeft, FALSE)
  /\ UNCHANGED <<mountVars, call, reply, hasKey, appVars, questionBank, isFetchingRef, preloadPending,
                 initialFetch, loader, currentQuestionIndex, hint, responses, timeLeft,
                 session>>

(***************************************************************************)
(* Specifications                                                          *)
(***************************************************************************)
\* a run of the application starts at most MaxSessions tests
StartTest == session.number < MaxSessions /\ handleStartTest

\* the operations of the App shell on the given configurations
AppOps(configs) ==
  \/ \E config \in configs : handleConfigSelect(config)
  \/ onCancel
  \/ StartTest
  \/ LoaderTimer
  \/ ConfirmSubmit
  \/ handleExitTest
  \/ onHome
  \/ onBackToDashboard

\* the provider's answers, any of them
ProviderOps ==
  \/ \E subject \in SubjectSet, answer \in PreloadAnswers :
       PreloadComplete(subject, answer)
  \/ \E answer \in ProviderAnswers(BatchCap) : InitialFetchComplete(answer)
  \/ \E answer \in ProviderAnswers(loader.batchSize) : LoaderComplete(answer)

\* the provider's answers when every call fails
FailingProviderOps ==
  \/ \E subject \in SubjectSet : PreloadComplete(subject, Failure)
  \/ InitialFetchComplete(Failure)
  \/ LoaderComplete(Failure)

\* the countdown and the operations of the user on the current question
QuestionOps ==
  \/ Tick
  \/ \E optionIndex \in 0..3 : handleOptionSelect(optionIndex)
  \/ Pause
  \/ Resume

Next ==
  \/ ProviderOps
  \/ AppOps(Configs)
  \/ QuestionOps
  \/ currentQuestionIndex < MaxIndex /\ NextButton
  \/ Prev
  \/ \E idx \in 0..MaxIndex : PaletteButton(idx)
  \/ handleMarkForReview
  \/ handleSkip
  \/ handleBookmark
  \/ handleClearResponse

Spec == Init /\ [][Next]_vars

\* The App shell and its loader with custom tests under any provider answer;
\* nobody touches the test screen except to submit or to leave.
LoaderNext ==
  \/ ProviderOps
  \/ AppOps(CustomConfigs)

LoaderSpec == Init /\ [][LoaderNext]_vars

\* Sessions of every configuration when the provider is of no use: the
\* credentials are missing, or every call fails. Timers and promise
\* continuations run once they are due.
SessionNext ==
  \/ FailingProviderOps
  \/ AppOps(Configs)
  \/ QuestionOps

SessionSpec == Init /\ [][SessionNext]_vars

FairSessionSpec ==
  /\ Init
  /\ [][SessionNext]_vars
  /\ WF_vars(LoaderTimer)
  /\ WF_vars(FailingProviderOps)

\* a run of the application that starts one test
FirstTest == session.number = 0 /\ handleStartTest

\* the operations of the App shell in a run with one test
OneSessionOps(configs) ==
  \/ \E config \in configs : handleConfigSelect(config)
  \/ FirstTest
  \/ LoaderTimer
  \/ ConfirmSubmit
  \/ handleExitTest

\* One custom test under any provider answer, with the countdown and the
\* Pause button.
PauseNext ==
  \/ ProviderOps
  \/ OneSessionOps(CustomConfigs)
  \/ Tick
  \/ Pause
  \/ Resume

PauseSpec == Init /\ [][PauseNext]_vars

\* the custom tests of the smallest size the dashboard offers
ShortConfigs == {config \in Configs : config.totalQuestions = BatchCap}

\* the operations of the user on the question panel and the palette
PanelOps ==
  \/ NextButton
  \/ Prev
  \/ \E idx \in 0..(currentConfig.totalQuestions - 1) : PaletteButton(idx)
  \/ \E optionIndex \in 0..3 : handleOptionSelect(optionIndex)
  \/ handleMarkForReview
  \/ handleSkip
  \/ handleBookmark
  \/ handleClearResponse

\* One short custom test in a deployment without credentials: every call of
\* generateQuestions resolves at once with the fallback questions, so the
\* active set stays short of the total and the last indices stay unloaded.
PanelNext ==
  \/ OneSessionOps(ShortConfigs)
  \/ PanelOps

\* the application started without credentials
OfflineInit == Init /\ ~hasKey

PanelSpec == OfflineInit /\ [][PanelNext]_vars

\* One short custom test without credentials under the clock: the handlers of
\* the question panel on the first questions while the seconds pass.
RecordNext ==
  \/ OneSessionOps(ShortConfigs)
  \/ Tick
  \/ currentQuestionIndex < MaxIndex /\ NextButton
  \/ Prev
  \/ \E optionIndex \in 0..3 : handleOptionSelect(optionIndex)
  \/ handleMarkForReview
  \/ handleSkip
  \/ handleBookmark
  \/ handleClearResponse

RecordSpec == OfflineInit /\ [][RecordNext]_vars

\* One short custom test in which the user asks for hints and moves between
\* the first questions while the provider answers when it likes.
HintNext ==
  \/ ProviderOps
  \/ OneSessionOps(ShortConfigs)
  \/ currentQuestionIndex < MaxIndex /\ NextButton
  \/ Prev
  \/ handleGetHint
  \/ \E request \in hint.pending : HintArrives(request)
  \/ CloseHint

HintSpec == Init /\ [][HintNext]_vars

\* The start of the application in a browser that holds any stored item, at
\* any hour.
MountNext == MountEffect

MountSpec == MountInit /\ [][MountNext]_vars

\* The adapter under any sequence of calls, for any configuration and batch
\* size, whatever the provider answers.
AdapterNext ==
  \E config \in Configs, batchSize \in 1..MaxBatch :
    \E answer \in ProviderAnswers(batchSize) :
      CallGenerateQuestions(config, batchSize, answer)

AdapterSpec == Init /\ [][AdapterNext]_vars

\* every operation of the adapter on every answer of the provider
OperationNext ==
  /\ reply = NoReply
  /\ \E op \in Operations, batchSize \in {2, BatchCap}, weakTopics \in 0..1,
        fails \in BOOLEAN, text \in Texts :
       CallOperation(op, batchSize, weakTopics, fails, text)

OperationSpec == Init /\ [][OperationNext]_vars

(***************************************************************************)
(* Properties                                                              *)
(***************************************************************************)
\* the loader's request completes in this step
RequestCompletes == loader.st = "inflight" /\ loader'.st # "inflight"

\* nothing that could add questions is under way
AtRest == loader.st = "idle" /\ ~initialFetch.active

\* C1: the loader issues a request only when no other question-generation
\* request of the application (a preload request, the first batch of
\* handleStartTest) is in flight.
C1_SingleOutstandingRequest ==
  [][(loader.st # "inflight" /\ loader'.st = "inflight")
       => (preloadPending' = {} /\ ~initialFetch'.active)]_vars

\* C2: a session whose provider answers all held the fresh questions asked for
\* reaches its total; stated by what the promise excludes: such a session at
\* rest (no request in flight, no timer pending) short of its total.
C2_SessionReachesTotal ==
  (currentScreen = "test" /\ session.exact /\ AtRest)
    => Len(questions) >= currentConfig.totalQuestions

\* C3: only finitely many requests are issued, also when every call fails:
\* from some point on the loader has no request in flight.
C3_LoaderStops == <>[](loader.st # "inflight")

\* C4: with exact answers a session of total T started on a cache miss never
\* issued more than ceil(T/5) requests, and has issued exactly ceil(T/5) when
\* the loader is at rest.
C4_ExactRequestCount ==
  (currentScreen = "test" /\ session.cacheMiss /\ session.exact)
    => /\ session.requests <= CeilDiv(currentConfig.totalQuestions, BatchCap)
       /\ AtRest => session.requests = CeilDiv(currentConfig.totalQuestions, BatchCap)

\* C5: the countdown of a running session never stands at zero: the step that
\* takes it there submits the test and shows the result.
C5_TimeoutSubmits == currentScreen = "test" => timeLeft > 0

\* C6: in every result attempted = correct + wrong and
\* 0 <= correct <= attempted <= totalQuestions.
C6_ResultCounts ==
  testResult.present =>
    /\ testResult.attempted = testResult.correct + testResult.wrong
    /\ 0 <= testResult.correct
    /\ testResult.correct <= testResult.attempted
    /\ testResult.attempted <= testResult.totalQuestions

\* C7: during a session the active set never holds more questions than the
\* configured total.
C7_SetWithinTotal ==
  currentScreen = "test" => Len(questions) <= currentConfig.totalQuestions

\* C8: a request that was in flight when the user left its session is dropped
\* when it completes: the question set stays as it is and no timer is set.
C8_OrphanDiscarded ==
  [][(RequestCompletes /\ loader.orphan)
       => (questions' = questions /\ loader'.st = "idle")]_vars

\* C9: the merge of a loader batch keeps the existing questions in place,
\* appends each batch element whose id is new exactly once and drops each one
\* whose id is present.
C9_MergeNeverDuplicates ==
  [][RequestCompletes =>
       \E answer \in ProviderAnswers(loader.batchSize) :
         LET newQs == generateQuestions(loader.config, loader.batchSize, answer,
                                        UsedIds, SessionFirstId)
             kept == {j \in 1..Len(newQs) : newQs[j].id \notin Ids(questions)}
         IN  /\ Len(questions') = Len(questions) + Cardinality(kept)
             /\ SubSeq(questions', 1, Len(questions)) = questions
             /\ \A j \in kept :
                  \E k \in (Len(questions) + 1)..Len(questions') : questions'[k] = newQs[j]
             /\ \A i \in Ids(questions) : CountId(questions', i) = CountId(questions, i)
             /\ \A i \in Ids(questions') \ Ids(questions) : CountId(questions', i) = 1
    ]_vars

\* a merge has just dropped present ids and appended new ones
C9_MixedMergeDone ==
  hasKey /\ loader.st = "timer" /\ loader.dropped > 0 /\ loader.appended > 0

\* C10: a session produces a result at most once, from the test screen and
\* never after the user left it.
C10_AtMostOneResult ==
  [][(session'.number = session.number /\ session'.completions # session.completions)
       => /\ session.completions = 0
          /\ session'.completions = 1
          /\ currentScreen = "test"
          /\ ~session.exited]_vars

\* the second session of a run was submitted and its result is shown
C10_SecondResultShown ==
  /\ currentScreen = "result"
  /\ testResult.present
  /\ session.number = MaxSessions
  /\ session.completions = 1

\* C11: from one state of a paused session to the next the remaining time,
\* every time-spent counter and the stored snapshot are what they were,
\* whatever the loader adds; the step that resumes writes the snapshot and,
\* with time left, starts the countdown again.
C11_PauseFreezes ==
  [][/\ (currentScreen = "test" /\ isPaused /\ currentScreen' = "test" /\ isPaused')
          => /\ timeLeft' = timeLeft
             /\ localStorage' = localStorage
             /\ \A i \in DOMAIN responses :
                  /\ i \in DOMAIN responses'
                  /\ responses'[i].timeSpentSeconds = responses[i].timeSpentSeconds
     /\ (currentScreen = "test" /\ isPaused /\ currentScreen' = "test" /\ ~isPaused')
          => /\ localStorage' =
                  [present |-> TRUE, responses |-> responses', timeLeft |-> timeLeft']
             /\ timeLeft' > 0 => TimerEffect(isPaused', timeLeft') = "setInterval"
    ]_vars

\* the loader has added questions to a paused session: the stored snapshot
\* knows fewer questions than the response map
C11_LoadedWhilePaused ==
  /\ currentScreen = "test"
  /\ isPaused
  /\ localStorage.present
  /\ DOMAIN localStorage.responses # DOMAIN responses
  /\ Len(questions) > Cardinality(DOMAIN localStorage.responses)

\* C12: on the test screen every question of the active set has a record of
\* its own: one keyed by its id and complete, and no two entries of the set
\* fall on the same record.
C12_OneRecordPerQuestion ==
  currentScreen = "test" =>
    /\ \A k \in 1..Len(questions) :
         /\ questions[k].id \in DOMAIN responses
         /\ responses[questions[k].id].questionId = questions[k].id
         /\ responses[questions[k].id].status # "undefined"
         /\ responses[questions[k].id].selectedOption # Undefined
    /\ \A j, k \in 1..Len(questions) : j # k => questions[j].id # questions[k].id

\* C13: no handler of the footer or of the bookmark button raises an error,
\* whether the current question is loaded or not.
C13_NoHandlerError == ~session.threw

\* C14: handleNavigate(i) with i outside [0, total) changes nothing; with i
\* inside, the index becomes i, a loaded target in status Not Visited becomes
\* Not Answered and visited, a loaded target in another status keeps status
\* and selected option, no other record changes, and an unloaded target
\* changes no record. The index of a running session is always in [0, total).
C14_NavigateRule ==
  [][/\ \A i \in -1..currentConfig.totalQuestions :
          handleNavigate(i) =>
            IF i < 0 \/ i >= currentConfig.totalQuestions
            THEN UNCHANGED vars
            ELSE /\ currentQuestionIndex' = i
                 /\ IF Loaded(i, questions)
                    THEN LET qId == questions[i + 1].id
                         IN  /\ DOMAIN responses' = DOMAIN responses
                             /\ \A other \in DOMAIN responses \ {qId} :
                                  responses'[other] = responses[other]
                             /\ responses[qId].status = "Not Visited"
                                  => /\ responses'[qId].status = "Not Answered"
                                     /\ responses'[qId].visited
                             /\ responses[qId].status # "Not Visited"
                                  => /\ responses'[qId].status = responses[qId].status
                                     /\ responses'[qId].selectedOption =
                                          responses[qId].selectedOption
                    ELSE responses' = responses
     /\ currentScreen' = "test"
          => /\ currentQuestionIndex' >= 0
             /\ currentQuestionIndex' < currentConfig'.totalQuestions
    ]_vars

\* the session stands on the last index of the test, which is not loaded, and
\* a question reached by navigation was answered
C14_OnLastIndex ==
  /\ currentScreen = "test"
  /\ currentQuestionIndex = currentConfig.totalQuestions - 1
  /\ ~Loaded(currentQuestionIndex, questions)
  /\ \E qId \in DOMAIN responses :
       responses[qId].status = "Answered" /\ responses[qId].visited

\* C15: once a session was started, storage holds a snapshot only while the
\* test screen is shown: submission and exit erase it and nothing writes it
\* again before the next session is on the screen.
C15_NoSnapshotAfterEnd ==
  (session.number > 0 /\ currentScreen # "test") => ~localStorage.present

\* the second session of a run was left with Exit
C15_SecondSessionLeft ==
  /\ currentScreen = "dashboard"
  /\ session.number = MaxSessions
  /\ session.exited
  /\ ~localStorage.present

\* C16: the mount effect offers the stored snapshot (savedSession) exactly
\* when it parses, has a timestamp and is at most 24 hours old; a stored item
\* that is not offered is erased.
C16_ResumeOfferRule ==
  [][(~mounted /\ mounted') =>
       LET item == localStorage
           offered == /\ item.present
                      /\ item.parsable
                      /\ item.timestamp # Undefined
                      /\ clock - item.timestamp <= SessionMaxAge
       IN  /\ savedSession'.present <=> offered
           /\ (item.present /\ ~offered) => ~localStorage'.present
    ]_vars

\* C17: the result of a submission counts as attempted the records in status
\* Answered or Answered & Marked, both alike, and as correct the questions
\* among them whose selected option is the correct answer; a record in status
\* Marked For Review has no selected option and adds to neither count.
C17_ScoredIffSelected ==
  [][(currentScreen = "test" /\ currentScreen' = "result") =>
       LET scored == {qId \in DOMAIN responses :
                        responses[qId].status \in {"Answered", "Answered & Marked"}}
           right == {k \in 1..Len(questions) :
                       /\ questions[k].id \in scored
                       /\ responses[questions[k].id].selectedOption =
                            questions[k].correctAnswer}
       IN  /\ testResult'.attempted = Cardinality(scored)
           /\ testResult'.correct = Cardinality(right)
           /\ testResult'.wrong = Cardinality(scored) - Cardinality(right)
           /\ \A qId \in DOMAIN responses :
                /\ qId \in scored <=> responses[qId].selectedOption # NoOption
                /\ responses[qId].status = "Marked For Review"
                     => responses[qId].selectedOption = NoOption
    ]_vars

\* a result whose session held a question answered and marked, one marked for
\* review only and one answered
C17_MarkedResult ==
  /\ currentScreen = "result"
  /\ testResult.present
  /\ \E a, b, c \in DOMAIN testResult.responses :
       /\ testResult.responses[a].status = "Answered & Marked"
       /\ testResult.responses[b].status = "Marked For Review"
       /\ testResult.responses[c].status = "Answered"

\* C18: after the Clear button on a loaded current question its record is
\* Not Answered, without selected option and visited, bookmark and time spent
\* are as before, and no other record and not the index changes.
C18_ClearKeepsRest ==
  [][(handleClearResponse /\ Loaded(currentQuestionIndex, questions)) =>
       LET qId == questions[currentQuestionIndex + 1].id
       IN  /\ responses'[qId].status = "Not Answered"
           /\ responses'[qId].selectedOption = NoOption
           /\ responses'[qId].visited
           /\ responses'[qId].isBookmarked = responses[qId].isBookmarked
           /\ responses'[qId].timeSpentSeconds = responses[qId].timeSpentSeconds
           /\ \A other \in DOMAIN responses \ {qId} : responses'[other] = responses[other]
           /\ DOMAIN responses' = DOMAIN responses
           /\ currentQuestionIndex' = currentQuestionIndex
    ]_vars

\* C19: a call of generateQuestions returns at most min(batchSize, 5)
\* questions, whichever path it takes.
C19_ReturnsAtMostBatch ==
  call.count > 0 => Len(call.returned) <= Min(call.batchSize, BatchCap)

\* C20: the identifiers of the questions a call returns differ from each
\* other and from every identifier an earlier call returned.
C20_FreshIdentifiers ==
  call.count > 0 =>
    /\ \A j, k \in 1..Len(call.returned) :
         j # k => call.returned[j].id # call.returned[k].id
    /\ Ids(call.returned) \cap call.earlier = {}

\* C21: an adapter operation never lets an error through to its caller,
\* and it answers with its fallback value (the pre-authored questions, the
\* empty sequence, the canned analysis, a fixed string) when credentials are
\* missing, when the provider call failed, and when no part of the
\* provider's text is JSON.
NothingParsable(text) ==
  LET jsonStr == Clean(text)
  IN  \A i \in 1..Len(jsonStr), j \in 1..Len(jsonStr) : ~JsonAccepts(SubSeq(jsonStr, i, j))

IsFallback(op, batchSize, value) ==
  CASE op = "generateQuestions" ->
         /\ value.kind = "fallback"
         /\ value.questions \in {FALLBACK_QUESTIONS,
                                 SliceTo(FALLBACK_QUESTIONS, Min(batchSize, BatchCap))}
    [] op = "generateFlashcards" -> value = [kind |-> "json", text |-> <<"[", "]">>]
    [] op = "analyzePerformance" -> value = [kind |-> "fallback"]
    [] OTHER -> value.kind = "fixed"

C21_FallbackOnFailure ==
  reply.op # "none" =>
    /\ ~reply.result.threw
    /\ (~reply.key \/ reply.fails
          \/ (reply.op \notin {"getAIHint", "solveAIDoubt"} /\ NothingParsable(reply.text)))
         => IsFallback(reply.op, reply.batchSize, reply.result.value)

\* a keyed generateQuestions call answered by bracketed text that is no JSON
C21_GarbageAnswered ==
  /\ reply.op = "generateQuestions"
  /\ reply.key
  /\ ~reply.fails
  /\ reply.text = <<"[", "{", "]">>
  /\ reply.result.value.kind = "fallback"

\* C22: in every TestResult the score is correct - wrong/3 rounded to two
\* decimals and the accuracy is 0 when nothing was attempted and
\* 100 * correct / attempted rounded to two decimals otherwise (both in
\* hundredths: the stored number is the nearest one to the exact quotient).
C22_ScoreAndAccuracy ==
  testResult.present =>
    /\ 2 * Abs(3 * testResult.score
               - (300 * testResult.correct - 100 * testResult.wrong)) <= 3
    /\ testResult.attempted = 0 => testResult.accuracy = 0
    /\ testResult.attempted > 0 =>
         2 * Abs(testResult.attempted * testResult.accuracy
                 - 10000 * testResult.correct) <= testResult.attempted

\* a result with two of three attempted questions right: 1.67 and 66.67
C22_TwoOfThree ==
  /\ testResult.present
  /\ testResult.attempted = 3
  /\ testResult.correct = 2
  /\ testResult.score = 167
  /\ testResult.accuracy = 6667

\* C23: on the result screen the Incorrect view lists exactly the questions
\* whose record holds a selected option other than the correct answer, the
\* Skipped view exactly the questions without a selected option (those
\* without a record among them), the two views share no question and the
\* All view lists every question.
C23_ReviewViews ==
  (currentScreen = "result" /\ testResult.present) =>
    LET resp      == testResult.responses
        Answered(q) == q.id \in DOMAIN resp /\ resp[q.id].selectedOption # NoOption
        incorrect == filteredQuestions(questions, testResult, "Incorrect")
        skipped   == filteredQuestions(questions, testResult, "Skipped")
    IN  /\ incorrect = SelectSeq(questions, LAMBDA q :
                         Answered(q) /\ resp[q.id].selectedOption # q.correctAnswer)
        /\ skipped = SelectSeq(questions, LAMBDA q : ~Answered(q))
        /\ Ids(incorrect) \cap Ids(skipped) = {}
        /\ filteredQuestions(questions, testResult, "All") = questions

\* C24: on the result screen each subject's attempted count is the number of
\* its questions whose record holds a selected option and its correct count
\* the number of them answered correctly, so correct <= attempted <= the
\* subject's questions, and the counts of all subjects add up to the
\* attempted and correct of the TestResult.
RECURSIVE SumOver(_, _)
SumOver(f, S) ==
  IF S = {} THEN 0
  ELSE LET x == CHOOSE y \in S : TRUE IN f[x] + SumOver(f, S \ {x})

C24_SubjectCounts ==
  (currentScreen = "result" /\ testResult.present) =>
    LET resp == testResult.responses
        rows == subjectData(questions, testResult)
        Of(subject) == {k \in 1..Len(questions) : questions[k].subject = subject}
        Answered(k) == /\ questions[k].id \in DOMAIN resp
                       /\ resp[questions[k].id].selectedOption # NoOption
    IN  /\ \A subject \in DOMAIN rows :
             /\ rows[subject].attempted
                  = Cardinality({k \in Of(subject) : Answered(k)})
             /\ rows[subject].correct
                  = Cardinality({k \in Of(subject) :
                      /\ Answered(k)
                      /\ resp[questions[k].id].selectedOption = questions[k].correctAnswer})
             /\ rows[subject].correct <= rows[subject].attempted
             /\ rows[subject].attempted <= rows[subject].total
        /\ SumOver([subject \in DOMAIN rows |-> rows[subject].attempted], DOMAIN rows)
             = testResult.attempted
        /\ SumOver([subject \in DOMAIN rows |-> rows[subject].correct], DOMAIN rows)
             = testResult.correct

\* C25: the loader asks the provider for a batch only when the question bank
\* holds no cached question of the session's subjects: whenever a step puts
\* a loader request in flight, the bank is empty for every subject of the
\* request's configuration.
C25_BankBeforeProvider ==
  [][(loader'.st = "inflight" /\ loader' # loader)
       => \A i \in 1..Len(loader'.config.selectedSubjects) :
            questionBank'[loader'.config.selectedSubjects[i]] = <<>>]_vars

\* C26: every ResponseRecord, of the running test and of the result, has the
\* status Answered or Answered & Marked exactly when it holds a selected
\* option: no record is Marked For Review, Not Answered or Not Visited with
\* an option, and none is Answered without one.
HoldsOption(record) == record.selectedOption \in 0..3

C26_StatusMatchesSelection ==
  /\ \A qId \in DOMAIN responses :
       responses[qId].status \in {"Answered", "Answered & Marked"}
         <=> HoldsOption(responses[qId])
  /\ testResult.present =>
       \A qId \in DOMAIN testResult.responses :
         testResult.responses[qId].status \in {"Answered", "Answered & Marked"}
           <=> HoldsOption(testResult.responses[qId])

\* after a second on the clock one record is Answered & Marked and bookmarked
\* and another one is Marked For Review
C26_MarkedBothWays ==
  /\ currentScreen = "test"
  /\ timeLeft < DurationTicks
  /\ \E qId \in DOMAIN responses :
       /\ responses[qId].status = "Answered & Marked"
       /\ responses[qId].isBookmarked
  /\ \E qId \in DOMAIN responses : responses[qId].status = "Marked For Review"

\* C27: the question shown counts as visited: whenever the current index
\* points at a loaded question that has a record, the record has
\* visited = TRUE and a status other than Not Visited.
C27_CurrentVisited ==
  (/\ currentScreen = "test"
   /\ Loaded(currentQuestionIndex, questions)
   /\ questions[currentQuestionIndex + 1].id \in DOMAIN responses)
    => /\ responses[questions[currentQuestionIndex + 1].id].visited
       /\ responses[questions[currentQuestionIndex + 1].id].status # "Not Visited"

\* C28: no two entries of the active question set have the same id, in the
\* initial set assembled from the bank and in every set the loader has grown.
C28_DistinctIds ==
  \A j, k \in 1..Len(questions) : questions[j].id = questions[k].id => j = k

\* C29: while the result screen is shown the question set under review is the
\* one that was submitted: it has totalQuestions entries and each of them has
\* a record in the result's response map.
C29_ReviewSetFrozen ==
  (currentScreen = "result" /\ testResult.present) =>
    /\ Len(questions) = testResult.totalQuestions
    /\ \A k \in 1..Len(questions) : questions[k].id \in DOMAIN testResult.responses

\* C30: a displayed hint belongs to the question at the current index: while
\* a loaded question is shown with a hint, the hint is the one of that
\* question.
C30_HintOfCurrent ==
  (/\ currentScreen = "test"
   /\ Loaded(currentQuestionIndex, questions)
   /\ hint.active # NoQuestion)
    => hint.active = questions[currentQuestionIndex + 1].id

=============================================================================
